---------------------------- MODULE Spec2Model ----------------------------
(***************************************************************************)
(* State-machine model of the TCS34725 colour sensor driver                *)
(* (hw/drivers/sensors/tcs34725/src/tcs34725.c).                           *)
(*                                                                         *)
(* The driver is single threaded and blocking: every driver entry point    *)
(* is one action.  Inside an action the driver state, the device and the   *)
(* trace of what the call did on the bus are threaded through the          *)
(* operators below as a record `st`; each bus transaction takes its        *)
(* return code from a fault script chosen by the environment.  A call      *)
(* leaves its result in `last` and `trace`; the caller takes it (Idle)     *)
(* before the next call is made.                                           *)
(***************************************************************************)
EXTENDS Integers, Sequences, FiniteSets, TLC

VARIABLES
    g_tcs34725_gain,              \* uint8_t g_tcs34725_gain
    g_tcs34725_integration_time,  \* uint8_t g_tcs34725_integration_time
    g_tcs34725_enabled,           \* uint8_t g_tcs34725_enabled
    cfg,                          \* tcs34725->cfg, the stored configuration
    regs,                         \* the device's writable registers
    chip_id,                      \* content of the device's ID register
    os_ticks_per_sec,             \* OS_TICKS_PER_SEC of the build
    float_conv,                   \* what the build's float to uint16_t conversion
                                  \* does with a value outside 0..65535
    trace,                        \* bus transactions, delays and calls of the last call
    last                          \* the last driver call: name, arguments, result, outputs

vars == <<g_tcs34725_gain, g_tcs34725_integration_time, g_tcs34725_enabled,
          cfg, regs, chip_id, os_ticks_per_sec, float_conv, trace, last>>


---------------------------------------------------------------------------
(* Constants of the driver's headers and of the OS                         *)

TCS34725_COMMAND_BIT == 128
TCS34725_REG_ENABLE == 0
TCS34725_REG_ATIME == 1
TCS34725_REG_AILTL == 4
TCS34725_REG_CONTROL == 15
TCS34725_REG_ID == 18
TCS34725_REG_CDATAL == 20
TCS34725_ENABLE_AIEN == 16
TCS34725_ENABLE_AEN == 2
TCS34725_ENABLE_PON == 1
TCS34725_CMD_TYPE == 96
TCS34725_CMD_ADDR == 6
TCS34725_ID == 68

TCS34725_INTEGRATIONTIME_2_4MS == 255
TCS34725_INTEGRATIONTIME_24MS == 246
TCS34725_INTEGRATIONTIME_50MS == 235
TCS34725_INTEGRATIONTIME_101MS == 213
TCS34725_INTEGRATIONTIME_154MS == 192
TCS34725_INTEGRATIONTIME_700MS == 0

TCS34725_GAIN_1X == 0
TCS34725_GAIN_4X == 1
TCS34725_GAIN_16X == 2
TCS34725_GAIN_60X == 3

SYS_EINVAL == -2
SYS_ENOENT == -4
HAL_I2C_ERR_ADDR_NACK == 4
SENSOR_TYPE_LIGHT == 8
SENSOR_TYPE_COLOR == 32768

---------------------------------------------------------------------------
(* C integer operators                                                     *)

\* Bit i of a non-negative integer
Bit(a, i) == (a \div 2^i) % 2

\* a & b on non-negative integers below 2^16
BitAnd(a, b) ==
      Bit(a, 0) * Bit(b, 0) + 2 * Bit(a, 1) * Bit(b, 1)
    + 4 * Bit(a, 2) * Bit(b, 2) + 8 * Bit(a, 3) * Bit(b, 3)
    + 16 * Bit(a, 4) * Bit(b, 4) + 32 * Bit(a, 5) * Bit(b, 5)
    + 64 * Bit(a, 6) * Bit(b, 6) + 128 * Bit(a, 7) * Bit(b, 7)
    + 256 * Bit(a, 8) * Bit(b, 8) + 512 * Bit(a, 9) * Bit(b, 9)
    + 1024 * Bit(a, 10) * Bit(b, 10) + 2048 * Bit(a, 11) * Bit(b, 11)
    + 4096 * Bit(a, 12) * Bit(b, 12) + 8192 * Bit(a, 13) * Bit(b, 13)
    + 16384 * Bit(a, 14) * Bit(b, 14) + 32768 * Bit(a, 15) * Bit(b, 15)

\* a | b on non-negative integers below 2^16
BitOr(a, b) == a + b - BitAnd(a, b)

\* a & ~m on non-negative integers
BitAndNot(a, m) == a - BitAnd(a, m)

\* a | b on two's complement ints (~x = -x - 1)
IntOr(a, b) ==
    IF a >= 0 /\ b >= 0 THEN BitOr(a, b)
    ELSE IF a < 0 /\ b < 0 THEN -BitAnd(-a - 1, -b - 1) - 1
    ELSE IF a < 0 THEN -BitAndNot(-a - 1, b) - 1
    ELSE -BitAndNot(-b - 1, a) - 1

\* conversion to uint8_t / uint16_t
U8(x) == x % 256
U16(x) == x % 65536

\* the first n elements of a buffer
Take(buf, n) == [i \in 1..n |-> buf[i]]

\* memset(buf, 0, n)
Zeros(n) == [i \in 1..n |-> 0]

---------------------------------------------------------------------------
(* The device on the bus                                                   *)

\* The registers the device stores when written and the driver reads back:
\* ENABLE and the four interrupt threshold bytes.  (ATIME and CONTROL are
\* written and never read; what is written to them is in the trace.)
WritableRegs == {TCS34725_REG_ENABLE,
                 TCS34725_REG_AILTL, TCS34725_REG_AILTL + 1,
                 TCS34725_REG_AILTL + 2, TCS34725_REG_AILTL + 3}

\* A byte whose type field (bits 6:5) is 11 is a special function, not a
\* register address.
IsSpecialFunction(b) == BitAnd(b, TCS34725_CMD_TYPE) = TCS34725_CMD_TYPE

\* The device takes a write frame: the first byte selects the register
\* (bits 4:0), the following bytes are stored at consecutive registers.
\* st.ptr is the device's address pointer; every read of the driver follows
\* an address write of the same call, so it is kept for the call only.
DevWrite(st, frame) ==
    IF frame = <<>> \/ IsSpecialFunction(frame[1]) THEN st
    ELSE LET a == BitAnd(frame[1], 31)
         IN [st EXCEPT
               !.ptr = a,
               !.regs = [r \in WritableRegs |->
                           IF r >= a /\ r - a + 2 <= Len(frame)
                           THEN frame[r - a + 2] ELSE @[r]]]

\* The registers a write frame stores into at the device: the ones
\* DevWrite addresses, whether or not the model keeps their content.
DevWritten(frame) ==
    IF frame = <<>> \/ IsSpecialFunction(frame[1]) THEN {}
    ELSE LET a == BitAnd(frame[1], 31)
         IN {r \in 0..31 : r >= a /\ r - a + 2 <= Len(frame)}

\* The byte the device returns for register a; blk is the content of the
\* eight data registers (CDATAL..BDATAH) at the time of the read.
DevReg(st, a, blk) ==
    IF a \in WritableRegs THEN st.regs[a]
    ELSE IF a = TCS34725_REG_ID THEN st.chip_id
    ELSE IF a >= TCS34725_REG_CDATAL /\ a < TCS34725_REG_CDATAL + 8
         THEN blk[a - TCS34725_REG_CDATAL + 1]
    ELSE 0

\* The device answers a read of n bytes from its address pointer on.
DevRead(st, n, blk) == [i \in 1..n |-> DevReg(st, st.ptr + i - 1, blk)]

---------------------------------------------------------------------------
(* The bus transport (hal_i2c) and the OS delay                            *)

Event(ev, data, n, rc) == [ev |-> ev, data |-> data, n |-> n, rc |-> rc]

Log(st, e) == [st EXCEPT !.trace = Append(@, e)]

\* Return code of the next transaction of this call.
NextRc(st, script) == script[st.ntx + 1]

\* "let x = a in F(x)", with a evaluated once
Bind(a, F(_)) == CHOOSE y \in {F(x) : x \in {a}} : TRUE

\* hal_i2c_master_write of the first len bytes of buffer.  A failed
\* transaction leaves the device as it was.
hal_i2c_master_write(st, script, buffer, len) ==
    LET rc == NextRc(st, script)
        frame == Take(buffer, len)
        st1 == Log([st EXCEPT !.ntx = @ + 1], Event("write", frame, len, rc))
    IN [st |-> IF rc = 0 THEN DevWrite(st1, frame) ELSE st1, rc |-> rc]

\* hal_i2c_master_read of len bytes into buffer.  On failure the transport
\* leaves junk in the buffer.
hal_i2c_master_read(st, script, buffer, len, env) ==
    LET rc == NextRc(st, script)
        got == IF rc = 0 THEN DevRead(st, len, env.blk)
               ELSE [i \in 1..len |-> env.junk]
    IN [st |-> Log([st EXCEPT !.ntx = @ + 1], Event("read", got, len, rc)),
        rc |-> rc,
        buffer |-> [i \in 1..Len(buffer) |->
                      IF i <= len THEN got[i] ELSE buffer[i]]]

\* os_time_delay(ticks)
os_time_delay(st, ticks) == Log(st, Event("delay", <<>>, ticks, 0))

OS_TICKS_PER_SEC == os_ticks_per_sec

---------------------------------------------------------------------------
(* Register transport                                                      *)

\* tcs34725_write8: one write of [reg | COMMAND_BIT, value & 0xFF]
tcs34725_write8(st, script, reg, value) ==
    LET payload == <<BitOr(reg, TCS34725_COMMAND_BIT), BitAnd(value, 255)>>
    IN hal_i2c_master_write(st, script, payload, 2)

\* tcs34725_read8 going on to the read when the register write has failed
tcs34725_read8_no_abort(st, script, reg, value, env) ==
    Bind(hal_i2c_master_write(st, script,
                              <<BitOr(reg, TCS34725_COMMAND_BIT)>>, 1),
         LAMBDA w :
    Bind(hal_i2c_master_read(w.st, script, <<0>>, 1, env),
         LAMBDA r :
    [st |-> r.st, rc |-> r.rc, value |-> r.buffer[1]]))

\* tcs34725_read8: write [reg | COMMAND_BIT], then read one byte.  `value`
\* is what the caller's variable holds; it is left alone when the register
\* write fails and is assigned the payload byte after the read, failed or not.
tcs34725_read8(st, script, reg, value, env) ==
    Bind(hal_i2c_master_write(st, script,
                              <<BitOr(reg, TCS34725_COMMAND_BIT)>>, 1),
         LAMBDA w :
    IF w.rc # 0 THEN [st |-> w.st, rc |-> w.rc, value |-> value]
    ELSE Bind(hal_i2c_master_read(w.st, script, <<0>>, 1, env),
         LAMBDA r :
    [st |-> r.st, rc |-> r.rc, value |-> r.buffer[1]]))

\* memcpy(dst + off, src, len) on buffers, off counted from 0
Memcpy(dst, off, src, len) ==
    [i \in 1..Len(dst) |->
        IF i > off /\ i <= off + len THEN src[i - off] ELSE dst[i]]

\* tcs34725_readlen without the memset of the caller's buffer
tcs34725_readlen_no_clear(st, script, reg, buffer, len, env) ==
    LET payload == <<BitOr(reg, TCS34725_COMMAND_BIT)>> \o Zeros(8)
    IN Bind(hal_i2c_master_write(st, script, payload, 1),
         LAMBDA w :
    IF w.rc # 0 THEN [st |-> w.st, rc |-> w.rc, buffer |-> buffer]
    ELSE Bind(hal_i2c_master_read(w.st, script, Zeros(9), len, env),
         LAMBDA r :
    IF r.rc # 0 THEN [st |-> r.st, rc |-> r.rc, buffer |-> buffer]
    ELSE [st |-> r.st, rc |-> 0,
          buffer |-> Memcpy(buffer, 0, r.buffer, len)]))

\* tcs34725_readlen: zero the caller's buffer, write [reg | COMMAND_BIT],
\* read len bytes into the 9-byte payload and copy them out.
tcs34725_readlen(st, script, reg, buffer, len, env) ==
    LET payload == <<BitOr(reg, TCS34725_COMMAND_BIT)>> \o Zeros(8)
        cleared == Memcpy(buffer, 0, Zeros(len), len)
    IN Bind(hal_i2c_master_write(st, script, payload, 1),
         LAMBDA w :
    IF w.rc # 0 THEN [st |-> w.st, rc |-> w.rc, buffer |-> cleared]
    ELSE Bind(hal_i2c_master_read(w.st, script, Zeros(9), len, env),
         LAMBDA r :
    IF r.rc # 0 THEN [st |-> r.st, rc |-> r.rc, buffer |-> cleared]
    ELSE [st |-> r.st, rc |-> 0,
          buffer |-> Memcpy(cleared, 0, r.buffer, len)]))

\* tcs34725_writelen: payload = [reg, buffer...]; a first write of
\* data_struct.len = 1 byte of it, then the payload is zeroed and a second
\* write sends len bytes of it.
tcs34725_writelen(st, script, reg, buffer, len) ==
    LET payload == Memcpy(<<reg>> \o Zeros(8), 1, buffer, len)
    IN Bind(hal_i2c_master_write(st, script, payload, 1),
         LAMBDA w1 :
    IF w1.rc # 0 THEN [st |-> w1.st, rc |-> w1.rc]
    ELSE hal_i2c_master_write(w1.st, script, Zeros(9), len))

---------------------------------------------------------------------------
(* Device control                                                          *)

\* tcs34725_enable
tcs34725_enable(st, script, enable, env) ==
    Bind(tcs34725_read8(Log(st, Event("tcs34725_enable", <<enable>>, 0, 0)),
                        script, TCS34725_REG_ENABLE, env.junk, env),
         LAMBDA r :
    IF r.rc # 0 THEN [st |-> r.st, rc |-> r.rc]
    ELSE Bind(os_time_delay(r.st, (3 * OS_TICKS_PER_SEC) \div 1000 + 1),
         LAMBDA st1 :
         Bind(IF enable # 0
              THEN tcs34725_write8(st1, script, TCS34725_REG_ENABLE,
                       BitOr(BitOr(r.value, TCS34725_ENABLE_PON),
                             TCS34725_ENABLE_AEN))
              ELSE tcs34725_write8(st1, script, TCS34725_REG_ENABLE,
                       BitAndNot(r.value, BitOr(TCS34725_ENABLE_PON,
                                                TCS34725_ENABLE_AEN))),
         LAMBDA w :
    IF w.rc # 0 THEN [st |-> w.st, rc |-> w.rc]
    ELSE [st |-> [w.st EXCEPT !.enabled = enable], rc |-> 0])))

\* tcs34725_get_enable
tcs34725_get_enable == g_tcs34725_enabled

\* tcs34725_set_integration_time storing the value before the write result
\* is known
tcs34725_set_integration_time_early_store(st, script, int_time) ==
    Bind(tcs34725_write8(
             Log(st, Event("tcs34725_set_integration_time",
                           <<int_time>>, 0, 0)),
             script, TCS34725_REG_ATIME, BitOr(int_time, st.gain)),
         LAMBDA w :
    [st |-> [w.st EXCEPT !.itime = int_time], rc |-> w.rc])

\* tcs34725_set_integration_time
tcs34725_set_integration_time(st, script, int_time) ==
    Bind(tcs34725_write8(
             Log(st, Event("tcs34725_set_integration_time",
                           <<int_time>>, 0, 0)),
             script, TCS34725_REG_ATIME, BitOr(int_time, st.gain)),
         LAMBDA w :
    IF w.rc # 0 THEN [st |-> w.st, rc |-> w.rc]
    ELSE [st |-> [w.st EXCEPT !.itime = int_time], rc |-> 0])

\* tcs34725_get_integration_time
tcs34725_get_integration_time == g_tcs34725_integration_time

\* tcs34725_set_gain with the range check off by one: gain 4 is let through
tcs34725_set_gain_accepts_4(st, script, gain) ==
    Bind(Log(st, Event("tcs34725_set_gain", <<gain>>, 0, 0)),
         LAMBDA st0 :
    IF gain > TCS34725_GAIN_60X + 1 THEN [st |-> st0, rc |-> SYS_EINVAL]
    ELSE Bind(tcs34725_write8(st0, script, TCS34725_REG_CONTROL,
                              BitOr(st.itime, gain)),
         LAMBDA w :
    IF w.rc # 0 THEN [st |-> w.st, rc |-> w.rc]
    ELSE [st |-> [w.st EXCEPT !.gain = gain], rc |-> 0]))

\* tcs34725_set_gain
tcs34725_set_gain(st, script, gain) ==
    Bind(Log(st, Event("tcs34725_set_gain", <<gain>>, 0, 0)),
         LAMBDA st0 :
    IF gain > TCS34725_GAIN_60X THEN [st |-> st0, rc |-> SYS_EINVAL]
    ELSE Bind(tcs34725_write8(st0, script, TCS34725_REG_CONTROL,
                              BitOr(st.itime, gain)),
         LAMBDA w :
    IF w.rc # 0 THEN [st |-> w.st, rc |-> w.rc]
    ELSE [st |-> [w.st EXCEPT !.gain = gain], rc |-> 0]))

\* tcs34725_get_gain
tcs34725_get_gain == g_tcs34725_gain

\* tcs34725_get_chip_id: *id is assigned only when the read succeeds
tcs34725_get_chip_id(st, script, id, env) ==
    Bind(tcs34725_read8(st, script, TCS34725_REG_ID, env.junk, env),
         LAMBDA r :
    IF r.rc # 0 THEN [st |-> r.st, rc |-> r.rc, id |-> id]
    ELSE [st |-> r.st, rc |-> 0, id |-> r.value])

\* tcs34725_config refusing only when the identity read fails and differs
tcs34725_config_id_and(st, script, c, env) ==
    Bind(tcs34725_get_chip_id(st, script, env.junk, env),
         LAMBDA i :
    IF i.id # TCS34725_ID /\ i.rc # 0 THEN [st |-> i.st, rc |-> SYS_EINVAL]
    ELSE Bind(tcs34725_enable(i.st, script, 1, env),
         LAMBDA e :
         Bind(tcs34725_set_integration_time(e.st, script, c.integration_time),
         LAMBDA t :
         Bind(tcs34725_set_gain(t.st, script, c.gain),
         LAMBDA g :
         Bind(IntOr(IntOr(IntOr(i.rc, e.rc), t.rc), g.rc),
         LAMBDA rc :
    IF rc # 0 THEN [st |-> g.st, rc |-> rc]
    ELSE [st |-> [g.st EXCEPT !.cfg = c], rc |-> rc])))))

\* tcs34725_config storing the configuration whatever the steps returned
tcs34725_config_always_stores(st, script, c, env) ==
    Bind(tcs34725_get_chip_id(st, script, env.junk, env),
         LAMBDA i :
    IF i.id # TCS34725_ID \/ i.rc # 0 THEN [st |-> i.st, rc |-> SYS_EINVAL]
    ELSE Bind(tcs34725_enable(i.st, script, 1, env),
         LAMBDA e :
         Bind(tcs34725_set_integration_time(e.st, script, c.integration_time),
         LAMBDA t :
         Bind(tcs34725_set_gain(t.st, script, c.gain),
         LAMBDA g :
         Bind(IntOr(IntOr(IntOr(i.rc, e.rc), t.rc), g.rc),
         LAMBDA rc :
    IF FALSE THEN [st |-> g.st, rc |-> rc]
    ELSE [st |-> [g.st EXCEPT !.cfg = c], rc |-> rc])))))

\* tcs34725_config keeping only the result of its last step
tcs34725_config_last_rc(st, script, c, env) ==
    Bind(tcs34725_get_chip_id(st, script, env.junk, env),
         LAMBDA i :
    IF i.id # TCS34725_ID \/ i.rc # 0 THEN [st |-> i.st, rc |-> SYS_EINVAL]
    ELSE Bind(tcs34725_enable(i.st, script, 1, env),
         LAMBDA e :
         Bind(tcs34725_set_integration_time(e.st, script, c.integration_time),
         LAMBDA t :
         Bind(tcs34725_set_gain(t.st, script, c.gain),
         LAMBDA g :
         Bind(g.rc,
         LAMBDA rc :
    IF rc # 0 THEN [st |-> g.st, rc |-> rc]
    ELSE [st |-> [g.st EXCEPT !.cfg = c], rc |-> rc])))))

\* tcs34725_config.  `id` is an uninitialised local: it holds env.junk
\* unless tcs34725_get_chip_id assigns it.
tcs34725_config(st, script, c, env) ==
    Bind(tcs34725_get_chip_id(st, script, env.junk, env),
         LAMBDA i :
    IF i.id # TCS34725_ID \/ i.rc # 0 THEN [st |-> i.st, rc |-> SYS_EINVAL]
    ELSE Bind(tcs34725_enable(i.st, script, 1, env),
         LAMBDA e :
         Bind(tcs34725_set_integration_time(e.st, script, c.integration_time),
         LAMBDA t :
         Bind(tcs34725_set_gain(t.st, script, c.gain),
         LAMBDA g :
         Bind(IntOr(IntOr(IntOr(i.rc, e.rc), t.rc), g.rc),
         LAMBDA rc :
    IF rc # 0 THEN [st |-> g.st, rc |-> rc]
    ELSE [st |-> [g.st EXCEPT !.cfg = c], rc |-> rc])))))

---------------------------------------------------------------------------
(* Acquisition pipeline                                                    *)

\* The switch of tcs34725_get_rawdata without the one-tick margin on a
\* user-defined integration time
delay_ticks_no_margin(integration_time) ==
    CASE integration_time = TCS34725_INTEGRATIONTIME_2_4MS ->
            (3 * OS_TICKS_PER_SEC) \div 1000 + 1
      [] integration_time = TCS34725_INTEGRATIONTIME_24MS ->
            (24 * OS_TICKS_PER_SEC) \div 1000 + 1
      [] integration_time = TCS34725_INTEGRATIONTIME_50MS ->
            (50 * OS_TICKS_PER_SEC) \div 1000 + 1
      [] integration_time = TCS34725_INTEGRATIONTIME_101MS ->
            (101 * OS_TICKS_PER_SEC) \div 1000 + 1
      [] integration_time = TCS34725_INTEGRATIONTIME_154MS ->
            (154 * OS_TICKS_PER_SEC) \div 1000 + 1
      [] integration_time = TCS34725_INTEGRATIONTIME_700MS ->
            (700 * OS_TICKS_PER_SEC) \div 1000 + 1
      [] OTHER ->
            (integration_time * OS_TICKS_PER_SEC) \div 1000

\* The switch of tcs34725_get_rawdata on cfg.integration_time
delay_ticks(integration_time) ==
    CASE integration_time = TCS34725_INTEGRATIONTIME_2_4MS ->
            (3 * OS_TICKS_PER_SEC) \div 1000 + 1
      [] integration_time = TCS34725_INTEGRATIONTIME_24MS ->
            (24 * OS_TICKS_PER_SEC) \div 1000 + 1
      [] integration_time = TCS34725_INTEGRATIONTIME_50MS ->
            (50 * OS_TICKS_PER_SEC) \div 1000 + 1
      [] integration_time = TCS34725_INTEGRATIONTIME_101MS ->
            (101 * OS_TICKS_PER_SEC) \div 1000 + 1
      [] integration_time = TCS34725_INTEGRATIONTIME_154MS ->
            (154 * OS_TICKS_PER_SEC) \div 1000 + 1
      [] integration_time = TCS34725_INTEGRATIONTIME_700MS ->
            (700 * OS_TICKS_PER_SEC) \div 1000 + 1
      [] OTHER ->
            (integration_time * OS_TICKS_PER_SEC) \div 1000 + 1

\* The 16-bit decode with the two bytes in big-endian order
Le16_big_endian(payload, lo, hi) == U16(BitOr(payload[lo] * 256, payload[hi]))

\* payload[hi] << 8 | payload[lo], stored in a uint16_t
Le16(payload, lo, hi) == U16(BitOr(payload[hi] * 256, payload[lo]))

\* tcs34725_get_rawdata: wait the delay of the stored configuration's
\* integration time, zero the outputs, read 8 bytes at CDATAL and decode.
tcs34725_get_rawdata(st, script, env) ==
    Bind(tcs34725_readlen(
             os_time_delay(st, delay_ticks(st.cfg.integration_time)),
             script, TCS34725_REG_CDATAL, Zeros(8), 8, env),
         LAMBDA rl :
    IF rl.rc # 0
    THEN [st |-> rl.st, rc |-> rl.rc, r |-> 0, g |-> 0, b |-> 0, c |-> 0]
    ELSE [st |-> rl.st, rc |-> 0,
          c |-> Le16(rl.buffer, 1, 2),
          r |-> Le16(rl.buffer, 3, 4),
          g |-> Le16(rl.buffer, 5, 6),
          b |-> Le16(rl.buffer, 7, 8)])

\* c * x as q * 100000 + r with 0 <= r < 100000, for a uint16_t x and a
\* coefficient 0 <= c < 200000 scaled by 100000 (kept within 31 bits).
ScaledMul(c, x) ==
    LET p == c * (x \div 256)
        s == (p % 100000) * 256 + c * (x % 256)
    IN [q |-> (p \div 100000) * 256 + s \div 100000, r |-> s % 100000]

\* -0.32466*r + 1.57837*g - 0.73191*b over the reals, as
\* whole + frac/100000 with 0 <= frac < 100000
LuxValue(r, g, b) ==
    LET tr == ScaledMul(32466, r)
        tg == ScaledMul(157837, g)
        tb == ScaledMul(73191, b)
        f == tg.r - tr.r - tb.r
        carry == IF f >= 0 THEN 0 ELSE IF f >= -100000 THEN -1 ELSE -2
    IN [whole |-> tg.q - tr.q - tb.q + carry, frac |-> f - carry * 100000]

\* A float is kept as a sign and a magnitude hi * 2^22 + lo, 0 <= lo < 2^22,
\* counted in units of 2^-25: the three coefficients, as IEEE binary32
\* literals, and all their products with a uint16_t and sums are multiples
\* of 2^-25 below 2^18.
F32_LIMB == 4194304

\* The binary32 nearest to 0.32466, 1.57837 and 0.73191, in units of 2^-25
\* (0x1.4c73acp-2, 0x1.94100ep+0, 0x1.76bce8p-1)
LUX_COEF_R == 10893782
LUX_COEF_G == 52961308
LUX_COEF_B == 24558824

\* Number of bits of a non-negative integer below 2^30
BitLen(x) ==
    IF x = 0 THEN 0 ELSE CHOOSE k \in 1..30 : 2^(k - 1) <= x /\ x < 2^k

F32Norm(neg, hi, lo) ==
    [neg |-> neg, hi |-> hi + lo \div F32_LIMB, lo |-> lo % F32_LIMB]

\* Rounding of a magnitude to the 24-bit significand of binary32, to
\* nearest, ties to even
F32Round(v) ==
    IF v.hi < 4 THEN v
    ELSE LET s == BitLen(v.hi) - 2
             q == v.hi * 2^(22 - s) + v.lo \div 2^s
             rem == v.lo % 2^s
             half == 2^(s - 1)
             q1 == IF rem > half \/ (rem = half /\ q % 2 = 1)
                   THEN q + 1 ELSE q
         IN [neg |-> v.neg, hi |-> q1 \div 2^(22 - s),
             lo |-> (q1 % 2^(22 - s)) * 2^s]

\* coefficient * (float)x for a uint16_t x: the exact product, rounded
F32MulU16(neg, coef, x) ==
    LET t == (coef \div 8192) * x
        u == (coef % 8192) * x
    IN F32Round(F32Norm(neg /\ x # 0, t \div 512, (t % 512) * 8192 + u))

\* a + b: the exact sum, rounded
F32Add(a, b) ==
    IF a.neg = b.neg
    THEN F32Round(F32Norm(a.neg, a.hi + b.hi, a.lo + b.lo))
    ELSE LET aBig == a.hi > b.hi \/ (a.hi = b.hi /\ a.lo >= b.lo)
             x == IF aBig THEN a ELSE b
             y == IF aBig THEN b ELSE a
             borrow == IF x.lo < y.lo THEN 1 ELSE 0
             hi == x.hi - y.hi - borrow
             lo == x.lo - y.lo + borrow * F32_LIMB
         IN F32Round([neg |-> x.neg /\ (hi # 0 \/ lo # 0),
                      hi |-> hi, lo |-> lo])

\* (uint16_t) of a float: the fraction is discarded (toward zero); a value
\* whose integral part is outside 0..65535 is undefined in C, and the build
\* wraps it or saturates it.
FloatToU16(v) ==
    LET t == IF v.neg THEN -(v.hi \div 8) ELSE v.hi \div 8
    IN IF t >= 0 /\ t <= 65535 THEN t
       ELSE IF float_conv = "wrap" THEN t % 65536
       ELSE IF t < 0 THEN 0 ELSE 65535

\* tcs34725_calculate_lux:
\* lux = (-0.32466F * r) + (1.57837F * g) + (-0.73191F * b), each product
\* and each sum rounded to float, then (uint16_t)lux
tcs34725_calculate_lux(r, g, b) ==
    Bind(F32Add(F32MulU16(TRUE, LUX_COEF_R, r),
                F32MulU16(FALSE, LUX_COEF_G, g)),
         LAMBDA rg :
    Bind(F32Add(rg, F32MulU16(TRUE, LUX_COEF_B, b)),
         LAMBDA lux : FloatToU16(lux)))

\* tcs34725_calculate_color_temp: McCamy's polynomial of the ratio n of the
\* raw channels, kept as an uninterpreted function of (r, g, b).
tcs34725_calculate_color_temp(r, g, b) == <<"cct", r, g, b>>

---------------------------------------------------------------------------
(* Sensor framework adapter                                                *)

\* data_func(sensor, data_arg, &scd): the consumer, whose result the
\* environment chooses.
data_func(st, scd, env) ==
    [st |-> Log(st, Event("data_func", scd, 0, env.data_rc)),
     rc |-> env.data_rc]

\* tcs34725_sensor_read refusing only an empty type mask
tcs34725_sensor_read_any_type(st, script, type, env) ==
    IF type = 0
    THEN [st |-> st, rc |-> SYS_EINVAL]
    ELSE Bind(tcs34725_get_rawdata(st, script, env),
         LAMBDA raw :
    IF raw.rc # 0 THEN [st |-> raw.st, rc |-> raw.rc]
    ELSE data_func(raw.st,
                   <<raw.r, raw.g, raw.b, raw.c,
                     tcs34725_calculate_lux(raw.r, raw.g, raw.b),
                     tcs34725_calculate_color_temp(raw.r, raw.g, raw.b)>>,
                   env))

\* tcs34725_sensor_read dropping the consumer's result
tcs34725_sensor_read_drops_rc(st, script, type, env) ==
    IF BitAnd(type, SENSOR_TYPE_COLOR) = 0
    THEN [st |-> st, rc |-> SYS_EINVAL]
    ELSE Bind(tcs34725_get_rawdata(st, script, env),
         LAMBDA raw :
    IF raw.rc # 0 THEN [st |-> raw.st, rc |-> raw.rc]
    ELSE [st |-> data_func(raw.st,
                   <<raw.r, raw.g, raw.b, raw.c,
                     tcs34725_calculate_lux(raw.r, raw.g, raw.b),
                     tcs34725_calculate_color_temp(raw.r, raw.g, raw.b)>>,
                   env).st,
          rc |-> 0])

\* tcs34725_sensor_read computing the lux from channels scaled down by the
\* current gain
tcs34725_sensor_read_gain_scaled(st, script, type, env) ==
    IF BitAnd(type, SENSOR_TYPE_COLOR) = 0
    THEN [st |-> st, rc |-> SYS_EINVAL]
    ELSE Bind(tcs34725_get_rawdata(st, script, env),
         LAMBDA raw :
    IF raw.rc # 0 THEN [st |-> raw.st, rc |-> raw.rc]
    ELSE data_func(raw.st,
                   <<raw.r, raw.g, raw.b, raw.c,
                     tcs34725_calculate_lux(raw.r \div (st.gain + 1),
                                            raw.g \div (st.gain + 1),
                                            raw.b \div (st.gain + 1)),
                     tcs34725_calculate_color_temp(raw.r, raw.g, raw.b)>>,
                   env))

\* tcs34725_sensor_read
tcs34725_sensor_read(st, script, type, env) ==
    IF BitAnd(type, SENSOR_TYPE_COLOR) = 0
    THEN [st |-> st, rc |-> SYS_EINVAL]
    ELSE Bind(tcs34725_get_rawdata(st, script, env),
         LAMBDA raw :
    IF raw.rc # 0 THEN [st |-> raw.st, rc |-> raw.rc]
    ELSE data_func(raw.st,
                   <<raw.r, raw.g, raw.b, raw.c,
                     tcs34725_calculate_lux(raw.r, raw.g, raw.b),
                     tcs34725_calculate_color_temp(raw.r, raw.g, raw.b)>>,
                   env))

---------------------------------------------------------------------------
(* Interrupt control                                                       *)

\* tcs34725_enable_interrupt writing the interrupt-enable bit alone
tcs34725_enable_interrupt_overwrite(st, script, enable, env) ==
    Bind(tcs34725_read8(st, script, TCS34725_REG_ENABLE, env.junk, env),
         LAMBDA r :
    IF r.rc # 0 THEN [st |-> r.st, rc |-> r.rc]
    ELSE tcs34725_write8(r.st, script, TCS34725_REG_ENABLE,
                         IF enable # 0 THEN TCS34725_ENABLE_AIEN ELSE 0))

\* tcs34725_enable_interrupt: read the enable register, set or clear AIEN,
\* write it back
tcs34725_enable_interrupt(st, script, enable, env) ==
    Bind(tcs34725_read8(st, script, TCS34725_REG_ENABLE, env.junk, env),
         LAMBDA r :
    IF r.rc # 0 THEN [st |-> r.st, rc |-> r.rc]
    ELSE tcs34725_write8(r.st, script, TCS34725_REG_ENABLE,
                         IF enable # 0
                         THEN BitOr(r.value, TCS34725_ENABLE_AIEN)
                         ELSE BitAndNot(r.value, TCS34725_ENABLE_AIEN)))

\* tcs34725_clear_interrupt: one write with data_struct.len = 0 and
\* data_struct.buffer pointing at the special-function byte
tcs34725_clear_interrupt(st, script) ==
    LET payload == BitOr(BitOr(TCS34725_COMMAND_BIT, TCS34725_CMD_TYPE),
                         TCS34725_CMD_ADDR)
    IN hal_i2c_master_write(st, script, <<payload>>, 0)

\* tcs34725_set_int_limits
tcs34725_set_int_limits(st, script, low, high) ==
    LET payload == <<BitAnd(low, 255), U8(low \div 256),
                     BitAnd(high, 255), U8(high \div 256)>>
    IN tcs34725_writelen(st, script, TCS34725_REG_AILTL, payload, 4)

\* tcs34725_get_int_limits: *low and *high keep what they held when the
\* read fails.
tcs34725_get_int_limits(st, script, low, high, env) ==
    Bind(tcs34725_readlen(st, script, TCS34725_REG_AILTL,
                          <<env.junk, env.junk, env.junk, env.junk>>,
                          4, env),
         LAMBDA rl :
    IF rl.rc # 0
    THEN [st |-> rl.st, rc |-> rl.rc, low |-> low, high |-> high]
    ELSE [st |-> rl.st, rc |-> 0,
          low |-> U16(BitOr(rl.buffer[1], rl.buffer[2] * 256)),
          high |-> U16(BitOr(rl.buffer[3], rl.buffer[4] * 256))])

---------------------------------------------------------------------------
(* Inputs the environment chooses                                          *)

\* Results of one bus transaction: success or a transport error
BusRcs == {0, HAL_I2C_ERR_ADDR_NACK}

\* Fault scripts: the result of the k-th transaction of a call that issues
\* at most n transactions
Scripts(n) == [1..n -> BusRcs]

\* Identity register of the device on the bus: a TCS34725 or another part
ChipIds == {TCS34725_ID, 77}

TickRates == {128, 1000}

FloatConvs == {"wrap", "sat"}

\* Gain arguments of tcs34725_set_gain: every uint8_t
GainBytes == 0..255

\* Gains of a configuration: two enumerated gains and a byte outside them
GainArgs == {TCS34725_GAIN_1X, TCS34725_GAIN_60X, 4}

\* Integration-time arguments: the shortest and the longest table value
ITimeArgs == {TCS34725_INTEGRATIONTIME_2_4MS, TCS34725_INTEGRATIONTIME_700MS}

\* Contents of the eight data registers at the time of a read
Blocks == {<<16, 0, 32, 0, 48, 0, 64, 0>>,
           <<52, 18, 120, 86, 188, 154, 240, 222>>}

\* Data register contents for the decoding alone: every block over three
\* byte values, and the two above
ByteSamples == {0, 129, 255}
DecodeBlocks == [1..8 -> ByteSamples] \cup Blocks

\* What a failed read leaves in a buffer, and what an unassigned local
\* holds: the byte that would pass for a good identity read
JunkBytes == {TCS34725_ID}

\* Results of the consumer
ConsumerRcs == {0, SYS_ENOENT}

TypeMasks == {0, SENSOR_TYPE_LIGHT, SENSOR_TYPE_COLOR,
              SENSOR_TYPE_COLOR + SENSOR_TYPE_LIGHT}

\* Interrupt thresholds
LimitArgs == {5, 10, 4660}

Env(blk, junk, data_rc) == [blk |-> blk, junk |-> junk, data_rc |-> data_rc]

NoBlock == Zeros(8)

---------------------------------------------------------------------------
(* The state machine                                                       *)

\* The driver and device state a call starts from
Start ==
    [gain |-> g_tcs34725_gain, itime |-> g_tcs34725_integration_time,
     enabled |-> g_tcs34725_enabled, cfg |-> cfg, regs |-> regs,
     ptr |-> 0, chip_id |-> chip_id, trace |-> <<>>, ntx |-> 0]

\* A call is made when the caller holds no result.
CanCall == last.op = "idle"

\* A call returns: its effects become the new state.
Return(st, op, args, rc, out) ==
    /\ g_tcs34725_gain' = st.gain
    /\ g_tcs34725_integration_time' = st.itime
    /\ g_tcs34725_enabled' = st.enabled
    /\ cfg' = st.cfg
    /\ regs' = st.regs
    /\ trace' = st.trace
    /\ last' = [op |-> op, args |-> args, rc |-> rc, out |-> out]
    /\ UNCHANGED <<chip_id, os_ticks_per_sec, float_conv>>

\* No call is outstanding
NoCall == [op |-> "idle", args |-> <<>>, rc |-> 0, out |-> <<>>]

\* Globals are zero-initialised, the device is in its power-on state.
Init ==
    /\ g_tcs34725_gain = 0
    /\ g_tcs34725_integration_time = 0
    /\ g_tcs34725_enabled = 0
    /\ cfg = [integration_time |-> 0, gain |-> 0]
    /\ regs = [r \in WritableRegs |-> 0]
    /\ chip_id \in ChipIds
    /\ os_ticks_per_sec \in TickRates
    /\ float_conv \in FloatConvs
    /\ trace = <<>>
    /\ last = NoCall

Enable ==
    /\ CanCall
    /\ \E on \in {0, 1}, script \in Scripts(3), junk \in JunkBytes :
           \E res \in {tcs34725_enable(Start, script, on, Env(NoBlock, junk, 0))} :
              Return(res.st, "tcs34725_enable", <<on>>, res.rc, <<>>)

SetIntegrationTime ==
    /\ CanCall
    /\ \E int_time \in ITimeArgs, script \in Scripts(1) :
           \E res \in {tcs34725_set_integration_time(Start, script, int_time)} :
              Return(res.st, "tcs34725_set_integration_time", <<int_time>>,
                     res.rc, <<>>)

SetGain ==
    /\ CanCall
    /\ \E gain \in GainBytes, script \in Scripts(1) :
           \E res \in {tcs34725_set_gain(Start, script, gain)} :
              Return(res.st, "tcs34725_set_gain", <<gain>>, res.rc, <<>>)

GetChipId ==
    /\ CanCall
    /\ \E script \in Scripts(2), junk \in JunkBytes :
           \E res \in {tcs34725_get_chip_id(Start, script, junk,
                                           Env(NoBlock, junk, 0))} :
              Return(res.st, "tcs34725_get_chip_id", <<>>, res.rc, <<res.id>>)

Config ==
    /\ CanCall
    /\ \E it \in ITimeArgs, gn \in GainArgs, script \in Scripts(7),
          junk \in JunkBytes :
           \E res \in {tcs34725_config(Start, script,
                                         [integration_time |-> it, gain |-> gn],
                                         Env(NoBlock, junk, 0))} :
              Return(res.st, "tcs34725_config", <<it, gn>>, res.rc, <<>>)

GetRawdataOf(blocks) ==
    /\ CanCall
    /\ \E blk \in blocks, script \in Scripts(2), junk \in JunkBytes :
           \E res \in {tcs34725_get_rawdata(Start, script, Env(blk, junk, 0))} :
              Return(res.st, "tcs34725_get_rawdata", <<>>, res.rc,
                     <<res.r, res.g, res.b, res.c>>)

GetRawdata == GetRawdataOf(Blocks)

SensorRead ==
    /\ CanCall
    /\ \E type \in TypeMasks, blk \in Blocks, script \in Scripts(2),
          junk \in JunkBytes, data_rc \in ConsumerRcs :
           \E res \in {tcs34725_sensor_read(Start, script, type,
                                           Env(blk, junk, data_rc))} :
              Return(res.st, "tcs34725_sensor_read", <<type>>, res.rc, <<>>)

SetIntLimits ==
    /\ CanCall
    /\ \E low \in LimitArgs, high \in LimitArgs, script \in Scripts(2) :
           \E res \in {tcs34725_set_int_limits(Start, script, low, high)} :
              Return(res.st, "tcs34725_set_int_limits", <<low, high>>,
                     res.rc, <<>>)

\* The limits may be read back by a caller that has just set them.
GetIntLimits ==
    /\ CanCall \/ last.op = "tcs34725_set_int_limits"
    /\ \E script \in Scripts(2), junk \in JunkBytes :
           \E res \in {tcs34725_get_int_limits(Start, script, junk, junk,
                                              Env(NoBlock, junk, 0))} :
              Return(res.st, "tcs34725_get_int_limits", <<>>, res.rc,
                     <<res.low, res.high>>)

\* The getters return the in-memory values.
GetEnable ==
    /\ CanCall
    /\ Return(Start, "tcs34725_get_enable", <<>>, tcs34725_get_enable, <<>>)

GetIntegrationTime ==
    /\ CanCall
    /\ Return(Start, "tcs34725_get_integration_time", <<>>,
              tcs34725_get_integration_time, <<>>)

GetGain ==
    /\ CanCall
    /\ Return(Start, "tcs34725_get_gain", <<>>, tcs34725_get_gain, <<>>)

EnableInterrupt ==
    /\ CanCall
    /\ \E on \in {0, 1}, script \in Scripts(3), junk \in JunkBytes :
           \E res \in {tcs34725_enable_interrupt(Start, script, on,
                                                Env(NoBlock, junk, 0))} :
              Return(res.st, "tcs34725_enable_interrupt", <<on>>, res.rc,
                     <<>>)

ClearInterrupt ==
    /\ CanCall
    /\ \E script \in Scripts(1) :
           \E res \in {tcs34725_clear_interrupt(Start, script)} :
              Return(res.st, "tcs34725_clear_interrupt", <<>>, res.rc, <<>>)

\* The caller has taken the result of the last call.
Idle ==
    /\ last.op # "idle"
    /\ last' = NoCall
    /\ trace' = <<>>
    /\ UNCHANGED <<g_tcs34725_gain, g_tcs34725_integration_time,
                   g_tcs34725_enabled, cfg, regs, chip_id, os_ticks_per_sec,
                   float_conv>>

Next ==
    \/ Enable
    \/ SetIntegrationTime
    \/ SetGain
    \/ GetChipId
    \/ Config
    \/ GetRawdata
    \/ SensorRead
    \/ SetIntLimits
    \/ GetIntLimits
    \/ GetEnable
    \/ GetIntegrationTime
    \/ GetGain
    \/ EnableInterrupt
    \/ ClearInterrupt
    \/ Idle

Spec == Init /\ [][Next]_vars

\* The acquisition alone, over every data block of DecodeBlocks
GetRawdataAny == GetRawdataOf(DecodeBlocks)

NextDecode ==
    \/ GetRawdataAny
    \/ Idle

SpecDecode == Init /\ [][NextDecode]_vars

---------------------------------------------------------------------------
(* What a call did, read off its trace                                     *)

\* The bus transactions of a trace, in order
BusEvents(tr) == SelectSeq(tr, LAMBDA e : e.ev \in {"write", "read"})

\* The calls of enable, set_integration_time and set_gain in a trace
CallEvents(tr) ==
    SelectSeq(tr, LAMBDA e : e.ev \in {"tcs34725_enable",
                                       "tcs34725_set_integration_time",
                                       "tcs34725_set_gain"})

\* The invocations of the consumer in a trace
ConsumerEvents(tr) == SelectSeq(tr, LAMBDA e : e.ev = "data_func")

\* The writes of a trace that address register reg with the command bit
WritesTo(tr, reg) ==
    SelectSeq(tr, LAMBDA e : /\ e.ev = "write"
                             /\ Len(e.data) >= 1
                             /\ e.data[1] = reg + TCS34725_COMMAND_BIT)

\* The four enumerated gains
ValidGains == {TCS34725_GAIN_1X, TCS34725_GAIN_4X, TCS34725_GAIN_16X,
               TCS34725_GAIN_60X}

\* The identity read of a configure call went through and returned the
\* expected identity.
IdReadOk(tr) ==
    /\ Len(tr) >= 2
    /\ tr[1].ev = "write" /\ tr[1].rc = 0
    /\ tr[2].ev = "read" /\ tr[2].rc = 0
    /\ tr[2].data = <<TCS34725_ID>>

---------------------------------------------------------------------------
(* Claims                                                                  *)

\* C1: for every gain byte g, tcs34725_set_gain(g) with g one of the four
\* enumerated gains issues one bus write and, when that write succeeds,
\* returns 0 and tcs34725_get_gain() is g; for every other byte it returns
\* SYS_EINVAL, issues no bus transaction and leaves the stored gain as it was.
C1_SetGain ==
    [][last'.op = "tcs34725_set_gain" =>
         LET g == last'.args[1]
             bus == BusEvents(trace')
         IN IF g \in ValidGains
            THEN /\ Len(bus) = 1
                 /\ bus[1].ev = "write"
                 /\ bus[1].rc = 0 =>
                      /\ last'.rc = 0
                      /\ tcs34725_get_gain' = g
            ELSE /\ last'.rc = SYS_EINVAL
                 /\ bus = <<>>
                 /\ g_tcs34725_gain' = g_tcs34725_gain]_vars

\* C1 witness: set_gain(60x) went through and the stored gain is 60x.
C1_Witness ==
    /\ last.op = "tcs34725_set_gain"
    /\ last.args = <<TCS34725_GAIN_60X>>
    /\ last.rc = 0
    /\ Len(BusEvents(trace)) = 1
    /\ tcs34725_get_gain = TCS34725_GAIN_60X

\* C2 (as claimed): whenever tcs34725_get_rawdata reads the data block, it
\* has first waited at least the delay of the current integration time, the
\* one tcs34725_get_integration_time() returns.
C2_DelayOfCurrentIntegrationTime ==
    last.op = "tcs34725_get_rawdata" =>
        \A i \in 1..Len(trace) :
            trace[i].ev = "read" =>
                \E j \in 1..(i - 1) :
                    /\ trace[j].ev = "delay"
                    /\ trace[j].n >= delay_ticks(tcs34725_get_integration_time)

\* C3: when the identity read of tcs34725_config fails or returns another
\* identity, config returns SYS_EINVAL, the only bus transactions are those
\* of the identity read, none of enable, set_integration_time and set_gain
\* is called, and enabled flag, gain, integration time and stored
\* configuration are unchanged.
C3_ConfigIdentityMismatch ==
    [][(last'.op = "tcs34725_config" /\ ~IdReadOk(trace')) =>
         /\ last'.rc = SYS_EINVAL
         /\ CallEvents(trace') = <<>>
         /\ trace' = BusEvents(trace')
         /\ Len(trace') \in {1, 2}
         /\ trace'[1].ev = "write"
         /\ trace'[1].data = <<TCS34725_REG_ID + TCS34725_COMMAND_BIT>>
         /\ Len(trace') = 2 => (trace'[1].rc = 0 /\ trace'[2].ev = "read"
                                /\ trace'[2].n = 1)
         /\ UNCHANGED <<g_tcs34725_enabled, g_tcs34725_gain,
                        g_tcs34725_integration_time, cfg>>]_vars

\* C3 witness: config on a device with another identity was refused after
\* a successful identity read.
C3_Witness ==
    /\ last.op = "tcs34725_config"
    /\ last.rc = SYS_EINVAL
    /\ Len(trace) = 2
    /\ trace[2].rc = 0
    /\ trace[2].data # <<TCS34725_ID>>

\* C4 (as claimed): after tcs34725_config(c) either it returned 0 and
\* integration time, gain and stored configuration all equal c, or it
\* failed and all three are as before the call.
C4_ConfigAtomic ==
    [][last'.op = "tcs34725_config" =>
         LET c == [integration_time |-> last'.args[1], gain |-> last'.args[2]]
         IN IF last'.rc = 0
            THEN /\ g_tcs34725_integration_time' = c.integration_time
                 /\ g_tcs34725_gain' = c.gain
                 /\ cfg' = c
            ELSE UNCHANGED <<g_tcs34725_integration_time, g_tcs34725_gain,
                             cfg>>]_vars

\* C4 (amended): after tcs34725_config(c) either it returned 0 and
\* integration time, gain and stored configuration all equal c, or it
\* failed and the stored configuration is as before the call, while the
\* integration time and the gain are each as before or already that of c.
C4_ConfigSnapshotAtomic ==
    [][last'.op = "tcs34725_config" =>
         LET c == [integration_time |-> last'.args[1], gain |-> last'.args[2]]
         IN IF last'.rc = 0
            THEN /\ g_tcs34725_integration_time' = c.integration_time
                 /\ g_tcs34725_gain' = c.gain
                 /\ cfg' = c
            ELSE /\ cfg' = cfg
                 /\ g_tcs34725_integration_time' \in
                        {g_tcs34725_integration_time, c.integration_time}
                 /\ g_tcs34725_gain' \in {g_tcs34725_gain, c.gain}]_vars

\* C4 witness: a failed config has left a new integration time in place
\* beside the old stored configuration.
C4_Witness ==
    /\ last.op = "tcs34725_config"
    /\ last.rc # 0
    /\ g_tcs34725_integration_time = last.args[1]
    /\ cfg.integration_time # last.args[1]

\* C5: with a matching identity, tcs34725_config calls enable(1),
\* set_integration_time and set_gain in that order, whatever each returns;
\* it returns 0 exactly when all three succeeded, and then the stored
\* configuration is c; otherwise it returns non-zero and the stored
\* configuration is as before; nothing is undone: each register is written
\* at most once and a setter that succeeded keeps its in-memory value.
C5_ConfigSteps ==
    [][(last'.op = "tcs34725_config" /\ IdReadOk(trace')) =>
         LET c == [integration_time |-> last'.args[1], gain |-> last'.args[2]]
             calls == CallEvents(trace')
             bus == BusEvents(trace')
             atime == WritesTo(trace', TCS34725_REG_ATIME)
             control == WritesTo(trace', TCS34725_REG_CONTROL)
             allOk == /\ \A i \in 1..Len(bus) : bus[i].rc = 0
                      /\ c.gain \in ValidGains
         IN /\ [i \in 1..Len(calls) |-> calls[i].ev] =
                   <<"tcs34725_enable", "tcs34725_set_integration_time",
                     "tcs34725_set_gain">>
            /\ calls[1].data = <<1>>
            /\ calls[2].data = <<c.integration_time>>
            /\ calls[3].data = <<c.gain>>
            /\ last'.rc = 0 <=> allOk
            /\ last'.rc = 0 => cfg' = c
            /\ last'.rc # 0 => cfg' = cfg
            /\ Len(atime) = 1
            /\ Len(control) = (IF c.gain \in ValidGains THEN 1 ELSE 0)
            /\ atime[1].rc = 0 =>
                   g_tcs34725_integration_time' = c.integration_time
            /\ (control # <<>> /\ control[1].rc = 0) =>
                   g_tcs34725_gain' = c.gain]_vars

\* C5 witness: a config with a matching identity went through all three
\* steps and stored a configuration with gain 60x.
C5_Witness ==
    /\ last.op = "tcs34725_config"
    /\ IdReadOk(trace)
    /\ last.rc = 0
    /\ Len(CallEvents(trace)) = 3
    /\ cfg = [integration_time |-> TCS34725_INTEGRATIONTIME_2_4MS,
              gain |-> TCS34725_GAIN_60X]

\* C6 (as claimed): when tcs34725_set_int_limits(low, high) succeeded and
\* the next call, tcs34725_get_int_limits, succeeds too, it returns
\* (low, high).
C6_IntLimitsRoundTrip ==
    [][(/\ last.op = "tcs34725_set_int_limits"
        /\ last.rc = 0
        /\ last'.op = "tcs34725_get_int_limits"
        /\ last'.rc = 0) => last'.out = last.args]_vars

C8_ReadWithoutColor ==
    (last.op = "tcs34725_sensor_read"
     /\ BitAnd(last.args[1], SENSOR_TYPE_COLOR) = 0) =>
        /\ last.rc = SYS_EINVAL
        /\ trace = <<>>

\* C8 witness: a read asking for the light type only was refused.
C8_Witness ==
    /\ last.op = "tcs34725_sensor_read"
    /\ last.args[1] = SENSOR_TYPE_LIGHT
    /\ last.rc = SYS_EINVAL

\* C9: tcs34725_sensor_read with the color type in the mask returns the
\* failure of the acquisition without calling the consumer when a bus
\* transaction of the acquisition fails, and otherwise calls the consumer
\* exactly once and returns what the consumer returned.
C9_ReadWithColor ==
    (last.op = "tcs34725_sensor_read"
     /\ BitAnd(last.args[1], SENSOR_TYPE_COLOR) # 0) =>
        LET bus == BusEvents(trace)
            calls == ConsumerEvents(trace)
        IN /\ bus # <<>>
           /\ IF \E i \in 1..Len(bus) : bus[i].rc # 0
              THEN /\ last.rc = bus[Len(bus)].rc
                   /\ last.rc # 0
                   /\ calls = <<>>
              ELSE /\ Len(calls) = 1
                   /\ trace[Len(trace)] = calls[1]
                   /\ last.rc = calls[1].rc

\* C9 witness: the acquisition went through, the consumer was called once
\* and its failure was returned.
C9_Witness ==
    /\ last.op = "tcs34725_sensor_read"
    /\ Len(ConsumerEvents(trace)) = 1
    /\ last.rc = SYS_ENOENT
    /\ \A i \in 1..Len(trace) : trace[i].ev = "read" => trace[i].rc = 0

\* The data block a successful tcs34725_get_rawdata has read
BlockRead(tr) == BusEvents(tr)[2].data

\* C10: a successful tcs34725_get_rawdata decodes the eight bytes
\* p1..p8 of the data block as clear = p1 + 256*p2, red = p3 + 256*p4,
\* green = p5 + 256*p6, blue = p7 + 256*p8 (its output is the tuple
\* red, green, blue, clear); the block
\* 10 00 20 00 30 00 40 00 gives clear 16, red 32, green 48, blue 64.
C10_DecodeLittleEndian ==
    (last.op = "tcs34725_get_rawdata" /\ last.rc = 0) =>
        LET p == BlockRead(trace)
        IN /\ Len(p) = 8
           /\ last.out = <<p[3] + 256 * p[4], p[5] + 256 * p[6],
                          p[7] + 256 * p[8], p[1] + 256 * p[2]>>
           /\ p = <<16, 0, 32, 0, 48, 0, 64, 0>> =>
                  last.out = <<32, 48, 64, 16>>

\* C10 witness: a block with distinct low and high bytes was decoded.
C10_Witness ==
    /\ last.op = "tcs34725_get_rawdata"
    /\ last.rc = 0
    /\ BlockRead(trace) = <<52, 18, 120, 86, 188, 154, 240, 222>>
    /\ last.out = <<22136, 39612, 57072, 4660>>

---------------------------------------------------------------------------
(* The acquisition delay over every integration-time byte and tick rate    *)

\* Tick rates of the supported boards and of slow and fast clocks
DelayTickRates == {1, 100, 128, 1000, 1024, 32768}

\* Every uint8_t integration time
ITimeBytes == 0..255

\* The driver after tcs34725_config({t, 1x}) has succeeded on a fresh
\* device, for any integration-time byte t: powered on, t current and stored.
InitDelay ==
    /\ g_tcs34725_gain = TCS34725_GAIN_1X
    /\ g_tcs34725_enabled = 1
    /\ \E t \in ITimeBytes :
           /\ g_tcs34725_integration_time = t
           /\ cfg = [integration_time |-> t, gain |-> TCS34725_GAIN_1X]
    /\ regs = [r \in WritableRegs |->
                 IF r = TCS34725_REG_ENABLE
                 THEN TCS34725_ENABLE_PON + TCS34725_ENABLE_AEN ELSE 0]
    /\ chip_id = TCS34725_ID
    /\ os_ticks_per_sec \in DelayTickRates
    /\ float_conv \in FloatConvs
    /\ trace = <<>>
    /\ last = NoCall

NextDelay ==
    \/ GetRawdata
    \/ Idle

SpecDelay == InitDelay /\ [][NextDelay]_vars

\* The nominal conversion time, in ms, of an integration-time byte
NominalMs(t) ==
    CASE t = TCS34725_INTEGRATIONTIME_2_4MS -> 3
      [] t = TCS34725_INTEGRATIONTIME_24MS -> 24
      [] t = TCS34725_INTEGRATIONTIME_50MS -> 50
      [] t = TCS34725_INTEGRATIONTIME_101MS -> 101
      [] t = TCS34725_INTEGRATIONTIME_154MS -> 154
      [] t = TCS34725_INTEGRATIONTIME_700MS -> 700
      [] OTHER -> t

\* C11: for every integration-time byte t the stored configuration holds
\* and every tick rate, tcs34725_get_rawdata first waits
\* floor(ms(t) * ticks_per_second / 1000) + 1 ticks, ms(t) being 3, 24, 50,
\* 101, 154, 700 for the six table values and t for any other byte, and
\* that many ticks last at least ms(t) milliseconds.
C11_DelayFormula ==
    last.op = "tcs34725_get_rawdata" =>
        LET ms == NominalMs(cfg.integration_time)
        IN /\ trace # <<>>
           /\ trace[1].ev = "delay"
           /\ trace[1].n = (ms * os_ticks_per_sec) \div 1000 + 1
           /\ trace[1].n * 1000 >= ms * os_ticks_per_sec
           /\ \A i \in 2..Len(trace) : trace[i].ev # "delay"

\* C11 witness: with a user-defined integration time of 37 ms at 128 ticks
\* per second the acquisition waited 5 ticks.
C11_Witness ==
    /\ last.op = "tcs34725_get_rawdata"
    /\ cfg.integration_time = 37
    /\ os_ticks_per_sec = 128
    /\ trace[1].ev = "delay"
    /\ trace[1].n = 5

---------------------------------------------------------------------------
(* The adapter read over chosen raw samples                                *)

\* Raw channel values: zero, small values, the largest, and values whose
\* weighted sum is a whole number
RedSamples == {0, 9, 282, 65535}
GreenSamples == {0, 41, 100, 131, 65535}
BlueSamples == {0, 53, 85, 65535}

\* The data registers holding the sample (r, g, b, c), low byte first
BlockOf(r, g, b, c) ==
    <<c % 256, c \div 256, r % 256, r \div 256,
      g % 256, g \div 256, b % 256, b \div 256>>

LuxBlocks ==
    {BlockOf(r, g, b, 64) : r \in RedSamples, g \in GreenSamples,
                            b \in BlueSamples}

\* tcs34725_sensor_read of the color type on a bus without faults
SensorReadOf(blocks) ==
    /\ CanCall
    /\ \E blk \in blocks, junk \in JunkBytes, data_rc \in ConsumerRcs :
           \E res \in {tcs34725_sensor_read(Start, [i \in 1..2 |-> 0],
                                           SENSOR_TYPE_COLOR,
                                           Env(blk, junk, data_rc))} :
              Return(res.st, "tcs34725_sensor_read", <<SENSOR_TYPE_COLOR>>,
                     res.rc, <<>>)

SensorReadLux == SensorReadOf(LuxBlocks)

NextLux ==
    \/ SensorReadLux
    \/ Idle

SpecLux == Init /\ [][NextLux]_vars

\* The record handed to the consumer by a read: r, g, b, c, lux, colortemp
Record(tr) == ConsumerEvents(tr)[1].data

\* C12 (as claimed): whenever -0.32466*r + 1.57837*g - 0.73191*b lies in
\* [0, 65535], the lux of the record is that value truncated toward zero;
\* for (0, 100, 0) it is 157.
C12_LuxTruncation ==
    (last.op = "tcs34725_sensor_read" /\ ConsumerEvents(trace) # <<>>) =>
        LET scd == Record(trace)
            v == LuxValue(scd[1], scd[2], scd[3])
            inRange == \/ v.whole >= 0 /\ v.whole < 65535
                       \/ v.whole = 65535 /\ v.frac = 0
        IN /\ inRange => scd[5] = v.whole
           /\ (scd[1] = 0 /\ scd[2] = 100 /\ scd[3] = 0) => scd[5] = 157

\* The driver as it is before any call, on the same device and build
Fresh ==
    [gain |-> 0, itime |-> 0, enabled |-> 0,
     cfg |-> [integration_time |-> 0, gain |-> 0],
     regs |-> [r \in WritableRegs |-> 0],
     ptr |-> 0, chip_id |-> chip_id, trace |-> <<>>, ntx |-> 0]

\* The record a read of the data block blk delivers from the fresh driver
FreshRecord(blk) ==
    Record(tcs34725_sensor_read(Fresh, [i \in 1..2 |-> 0], SENSOR_TYPE_COLOR,
                                Env(blk, TCS34725_ID, 0)).st.trace)

\* C13: the record handed to the consumer holds the acquired raw channels,
\* and its lux and color temperature are those a read of the same raw
\* sample delivers from the fresh driver: whatever the gain, integration
\* time, enabled flag and earlier calls, equal samples give equal records.
C13_RecordFunctionOfSample ==
    (last.op = "tcs34725_sensor_read" /\ ConsumerEvents(trace) # <<>>) =>
        LET p == BlockRead(trace)
            scd == Record(trace)
        IN /\ scd[1] = p[3] + 256 * p[4]
           /\ scd[2] = p[5] + 256 * p[6]
           /\ scd[3] = p[7] + 256 * p[8]
           /\ scd[4] = p[1] + 256 * p[2]
           /\ scd[5] = FreshRecord(p)[5]
           /\ scd[6] = FreshRecord(p)[6]
           /\ Len(scd) = 6

\* C13 witness: a record was delivered by a driver that is enabled, at
\* gain 60x, after a configuration and a later change of integration time.
C13_Witness ==
    /\ last.op = "tcs34725_sensor_read"
    /\ ConsumerEvents(trace) # <<>>
    /\ Record(trace)[5] = 13564
    /\ g_tcs34725_enabled = 1
    /\ g_tcs34725_gain = TCS34725_GAIN_60X
    /\ cfg.integration_time = TCS34725_INTEGRATIONTIME_2_4MS
    /\ g_tcs34725_integration_time = TCS34725_INTEGRATIONTIME_700MS

\* C14 (as claimed): in every call of tcs34725_set_gain,
\* tcs34725_set_integration_time and tcs34725_config, every value written
\* to the gain-control register is the requested gain and has only its two
\* low bits set, and every value written to the timing register is exactly
\* the requested integration time.
C14_RegisterLayout ==
    LET atime == WritesTo(trace, TCS34725_REG_ATIME)
        control == WritesTo(trace, TCS34725_REG_CONTROL)
        it == IF last.op = "tcs34725_config" THEN last.args[1]
              ELSE IF last.op = "tcs34725_set_integration_time"
                   THEN last.args[1]
              ELSE -1
        gn == IF last.op = "tcs34725_config" THEN last.args[2]
              ELSE IF last.op = "tcs34725_set_gain" THEN last.args[1]
              ELSE -1
    IN /\ \A i \in 1..Len(atime) : atime[i].data = <<atime[i].data[1], it>>
       /\ \A i \in 1..Len(control) :
              /\ control[i].data = <<control[i].data[1], gn>>
              /\ BitAnd(control[i].data[2], 252) = 0

---------------------------------------------------------------------------
(* The register transport called directly                                  *)

\* Registers read directly: enable, identity, first data register, low
\* threshold
ReadRegs == {TCS34725_REG_ENABLE, TCS34725_REG_ID, TCS34725_REG_CDATAL,
             TCS34725_REG_AILTL}

\* Lengths of a block transfer: none, one byte, the thresholds, the data
\* block, and one more than the eight data bytes the payload has room for
BlockLens == {0, 1, 4, 8, 9}

\* The largest block length the 9-byte payload of tcs34725_writelen holds
\* behind its register byte
MAX_BLOCK_LEN == 8

\* What the caller's buffer holds before a block read
StaleBuffer == <<170, 171, 172, 173, 174, 175, 176, 177, 178>>

\* The bytes a caller hands to a block write
DataBuffer == <<17, 34, 51, 68, 85, 102, 119, 136, 153>>

\* What a write past the end of the payload array does: the byte lands in
\* unused stack and the call goes on, or the damaged frame is detected when
\* the function returns and the call never returns.
StackOutcomes == {"spill", "abort"}

\* The result of a call that did not return
NO_RETURN == -32768

Read8 ==
    /\ CanCall
    /\ \E reg \in ReadRegs, blk \in Blocks, script \in Scripts(2),
          junk \in JunkBytes :
           \E res \in {tcs34725_read8(Start, script, reg, junk,
                                     Env(blk, junk, 0))} :
              Return(res.st, "tcs34725_read8", <<reg>>, res.rc,
                     <<res.value>>)

Readlen ==
    /\ CanCall
    /\ \E reg \in ReadRegs, len \in BlockLens, blk \in Blocks,
          script \in Scripts(2), junk \in JunkBytes :
           \E res \in {tcs34725_readlen(Start, script, reg, StaleBuffer, len,
                                       Env(blk, junk, 0))} :
              Return(res.st, "tcs34725_readlen", <<reg, len>>, res.rc,
                     res.buffer)

Writelen ==
    /\ CanCall
    /\ \E reg \in ReadRegs, len \in BlockLens, script \in Scripts(2),
          outcome \in StackOutcomes :
           \E res \in {tcs34725_writelen(Start, script, reg, DataBuffer,
                                        len)} :
              Return(res.st, "tcs34725_writelen", <<reg, len>>,
                     IF len > MAX_BLOCK_LEN /\ outcome = "abort"
                     THEN NO_RETURN ELSE res.rc,
                     <<>>)

NextTransport ==
    \/ Read8
    \/ Readlen
    \/ Writelen
    \/ GetRawdata
    \/ Idle

SpecTransport == Init /\ [][NextTransport]_vars

\* C15: tcs34725_read8 and tcs34725_readlen issue one write of the single
\* byte register | 0x80 and then one read of 1, resp. len, bytes; when the
\* write fails they return its failure and issue no read; they return the
\* result of the last transaction and never issue a third one.
C15_TwoPhaseRead ==
    last.op \in {"tcs34725_read8", "tcs34725_readlen"} =>
        LET n == IF last.op = "tcs34725_read8" THEN 1 ELSE last.args[2]
        IN /\ trace = BusEvents(trace)
           /\ Len(trace) \in {1, 2}
           /\ trace[1].ev = "write"
           /\ trace[1].data = <<last.args[1] + TCS34725_COMMAND_BIT>>
           /\ IF trace[1].rc # 0
              THEN /\ Len(trace) = 1
                   /\ last.rc = trace[1].rc
              ELSE /\ Len(trace) = 2
                   /\ trace[2].ev = "read"
                   /\ trace[2].n = n
                   /\ Len(trace[2].data) = n
                   /\ last.rc = trace[2].rc

\* C15 witness: a block read of 4 bytes whose data read failed returned
\* that failure after its two transactions.
C15_Witness ==
    /\ last.op = "tcs34725_readlen"
    /\ last.args[2] = 4
    /\ Len(trace) = 2
    /\ trace[2].rc # 0
    /\ last.rc = trace[2].rc

\* C16: after a failed tcs34725_readlen, in the register write or in the
\* data read, the first len bytes of the caller's buffer are zero, whatever
\* they held and whatever the transport left behind; after a successful one
\* they are the len bytes the transport returned; a failed
\* tcs34725_get_rawdata reports all four channels as 0.
C16_ZeroFillOnFailure ==
    /\ last.op = "tcs34725_readlen" =>
           \A i \in 1..last.args[2] :
               IF last.rc # 0 THEN last.out[i] = 0
               ELSE last.out[i] = trace[2].data[i]
    /\ (last.op = "tcs34725_get_rawdata" /\ last.rc # 0) =>
           last.out = <<0, 0, 0, 0>>

\* C16 witness: a block read of 8 bytes failed in its data read, the
\* transport left non-zero bytes behind, and the caller's stale buffer came
\* back zeroed.
C16_Witness ==
    /\ last.op = "tcs34725_readlen"
    /\ last.args[2] = 8
    /\ last.rc # 0
    /\ Len(trace) = 2
    /\ trace[2].data[1] # 0
    /\ StaleBuffer[1] # 0
    /\ \A i \in 1..8 : last.out[i] = 0

\* C20 (as claimed): tcs34725_readlen and tcs34725_writelen called with a
\* length above 8 return SYS_EINVAL and issue no bus transaction.
C20_LengthRejected ==
    (/\ last.op \in {"tcs34725_readlen", "tcs34725_writelen"}
     /\ last.args[2] > MAX_BLOCK_LEN) =>
        /\ last.rc = SYS_EINVAL
        /\ trace = <<>>

\* The last bus transaction of a trace is a successful two-byte write to
\* register reg: the register write of a setter went through.
WriteSucceeded(tr, reg) ==
    LET bus == BusEvents(tr)
    IN /\ bus # <<>>
       /\ bus[Len(bus)].ev = "write"
       /\ bus[Len(bus)].rc = 0
       /\ bus[Len(bus)].n = 2
       /\ bus[Len(bus)].data[1] = reg + TCS34725_COMMAND_BIT

\* The names of the three getters
GetterOps == {"tcs34725_get_enable", "tcs34725_get_integration_time",
              "tcs34725_get_gain"}

\* C17: each call of tcs34725_enable, tcs34725_set_integration_time and
\* tcs34725_set_gain leaves its getter returning the call's argument when
\* its register write succeeded and what it returned before otherwise, and
\* leaves the other two getters alone; the getters return the in-memory
\* values and issue no bus transaction.  By induction the getters return
\* the argument of the latest setter call whose write succeeded.
C17_GettersFollowSetters ==
    [][/\ last'.op = "tcs34725_enable" =>
            /\ tcs34725_get_enable' =
                   IF WriteSucceeded(trace', TCS34725_REG_ENABLE)
                   THEN last'.args[1] ELSE tcs34725_get_enable
            /\ WriteSucceeded(trace', TCS34725_REG_ENABLE) <=> last'.rc = 0
            /\ UNCHANGED <<g_tcs34725_integration_time, g_tcs34725_gain>>
       /\ last'.op = "tcs34725_set_integration_time" =>
            /\ tcs34725_get_integration_time' =
                   IF WriteSucceeded(trace', TCS34725_REG_ATIME)
                   THEN last'.args[1] ELSE tcs34725_get_integration_time
            /\ WriteSucceeded(trace', TCS34725_REG_ATIME) <=> last'.rc = 0
            /\ UNCHANGED <<g_tcs34725_enabled, g_tcs34725_gain>>
       /\ last'.op = "tcs34725_set_gain" =>
            /\ tcs34725_get_gain' =
                   IF WriteSucceeded(trace', TCS34725_REG_CONTROL)
                   THEN last'.args[1] ELSE tcs34725_get_gain
            /\ WriteSucceeded(trace', TCS34725_REG_CONTROL) <=> last'.rc = 0
            /\ UNCHANGED <<g_tcs34725_enabled, g_tcs34725_integration_time>>
       /\ last'.op \in GetterOps =>
            /\ trace' = <<>>
            /\ last'.rc = (CASE last'.op = "tcs34725_get_enable" ->
                                    g_tcs34725_enabled
                             [] last'.op = "tcs34725_get_integration_time" ->
                                    g_tcs34725_integration_time
                             [] OTHER -> g_tcs34725_gain)
            /\ UNCHANGED <<g_tcs34725_enabled, g_tcs34725_integration_time,
                           g_tcs34725_gain, cfg, regs>>]_vars

\* C17 witness: after set_integration_time(2.4 ms) went through, a later
\* set_integration_time(700 ms) failed on the bus and the getter still
\* returns 2.4 ms.
C17_Witness ==
    /\ last.op = "tcs34725_set_integration_time"
    /\ last.args = <<TCS34725_INTEGRATIONTIME_700MS>>
    /\ last.rc # 0
    /\ tcs34725_get_integration_time = TCS34725_INTEGRATIONTIME_2_4MS

\* The bits tcs34725_enable and tcs34725_enable_interrupt own in the enable
\* register
OwnedBits(op) ==
    IF op = "tcs34725_enable" THEN {0, 1} ELSE {4}

\* C18: tcs34725_enable(on) and tcs34725_enable_interrupt(on) read the
\* enable register and write it back with the power-on and ADC-enable bits
\* (resp. the interrupt-enable bit) equal to on and every other bit as
\* read; enable waits (3 * ticks_per_second) / 1000 + 1 ticks between its
\* read and its write; when the read fails no write of a value is issued.
C18_EnableReadModifyWrite ==
    last.op \in {"tcs34725_enable", "tcs34725_enable_interrupt"} =>
        LET bus == BusEvents(trace)
            steps == SelectSeq(trace, LAMBDA e : e.ev \in {"write", "read",
                                                           "delay"})
            readOk == Len(bus) >= 2 /\ bus[1].rc = 0 /\ bus[2].rc = 0
            on == IF last.args[1] # 0 THEN 1 ELSE 0
        IN /\ bus # <<>>
           /\ bus[1].ev = "write"
           /\ bus[1].data = <<TCS34725_REG_ENABLE + TCS34725_COMMAND_BIT>>
           /\ Len(bus) >= 2 => (bus[2].ev = "read" /\ bus[2].n = 1)
           /\ ~readOk =>
                /\ Len(bus) <= 2
                /\ last.rc # 0
                /\ \A i \in 1..Len(steps) : steps[i].ev # "delay"
           /\ readOk =>
                /\ Len(bus) = 3
                /\ bus[3].ev = "write"
                /\ Len(bus[3].data) = 2
                /\ bus[3].data[1] = TCS34725_REG_ENABLE + TCS34725_COMMAND_BIT
                /\ \A i \in 0..7 :
                       Bit(bus[3].data[2], i) =
                           IF i \in OwnedBits(last.op) THEN on
                           ELSE Bit(bus[2].data[1], i)
                /\ last.rc = bus[3].rc
                /\ IF last.op = "tcs34725_enable"
                   THEN /\ Len(steps) = 4
                        /\ steps[3].ev = "delay"
                        /\ steps[3].n = (3 * os_ticks_per_sec) \div 1000 + 1
                   ELSE Len(steps) = 3

\* C18 witness: tcs34725_enable(0) read the enable register with the
\* interrupt-enable, ADC-enable and power-on bits set and wrote it back
\* with the interrupt-enable bit alone.
C18_Witness ==
    /\ last.op = "tcs34725_enable"
    /\ last.args = <<0>>
    /\ Len(BusEvents(trace)) = 3
    /\ BusEvents(trace)[2].data = <<19>>
    /\ BusEvents(trace)[3].data[2] = 16
    /\ last.rc = 0

\* C19 (as claimed): tcs34725_clear_interrupt issues exactly one bus write
\* and no read, the write transmits the single byte
\* 0x80 | (3 << 5) | 6 = 0xE6, and the result is the result of that write.
C19_ClearInterruptFrame ==
    last.op = "tcs34725_clear_interrupt" =>
        LET bus == BusEvents(trace)
        IN /\ Len(bus) = 1
           /\ bus[1].ev = "write"
           /\ last.rc = bus[1].rc
           /\ bus[1].data = <<230>>


\* ---------------------------------------------------------------------
\* C21
\* ---------------------------------------------------------------------

FrameOps ==
    {"tcs34725_get_rawdata", "tcs34725_sensor_read",
     "tcs34725_enable_interrupt", "tcs34725_clear_interrupt",
     "tcs34725_set_int_limits", "tcs34725_get_int_limits",
     "tcs34725_get_chip_id"}

\* The registers the write frames of a call store into.
RegsWritten(tr) ==
    UNION {DevWritten(tr[i].data) :
             i \in {j \in 1..Len(tr) : tr[j].ev = "write"}}

ConfigRegs == {TCS34725_REG_ATIME, TCS34725_REG_CONTROL}

\* C21: get_rawdata, sensor_read, enable_interrupt, clear_interrupt,
\* set_int_limits, get_int_limits and get_chip_id, whatever they return,
\* leave the enabled flag, the gain, the integration time and the stored
\* configuration as they were, and none of their write frames stores into
\* the timing (ATIME) or gain (CONTROL) register.
C21_FrameOfConfiguration ==
    [][last'.op \in FrameOps =>
         /\ UNCHANGED <<g_tcs34725_enabled, g_tcs34725_gain,
                        g_tcs34725_integration_time, cfg>>
         /\ RegsWritten(trace') \cap ConfigRegs = {}]_vars

=============================================================================
